---- MODULE Spec2Model ----
(***************************************************************************)
(* Finance tracker: the entity store (users, transactions, budgets,        *)
(* savings goals), the FinanceTrackerCLI methods of lib/cli.py, the click  *)
(* commands that call them, and the derived-value methods of the models    *)
(* in lib/db/models.py.                                                    *)
(*                                                                         *)
(* Encoding.  Float amounts are integers (currency units).  A date is the  *)
(* tuple <<year, month, day>> and a month string "YYYY-MM" is the tuple    *)
(* <<year, month>>, so strftime("%Y-%m") is a real truncation.  A row's    *)
(* primary key is its position in its table (autoincrement from 1; no      *)
(* operation modelled here deletes a row).  None is the string "None".     *)
(***************************************************************************)
EXTENDS Integers, Sequences, FiniteSets, TLC

VARIABLES
    users,            \* the users table: the name and email of each row
    current_user_id,  \* FinanceTrackerCLI.current_user_id (.current_user)
    transactions,     \* the transactions table
    budgets,          \* the budgets table
    goals,            \* the savings_goals table
    ret,              \* what the last method returned and printed
    last_limit,       \* history: the limit last given for each budget key
    contributed,      \* history: per goal, the contributions made to it
    n_contributions,  \* history: contributions made in this run
    tags,             \* the tags table: the name of each row
    transaction_tags, \* the association table: rows <<transaction, tag>>
    profiles,         \* the user_profiles table
    session           \* what the last method did to its store session

vars == <<users, current_user_id, transactions, budgets, goals, ret,
          last_limit, contributed, n_contributions,
          tags, transaction_tags, profiles, session>>

(* ------------------------------ bounds -------------------------------- *)
\* rows the transactions table may hold
MaxTx == 2
\* rows the budgets table may hold
MaxBudgets == 2
\* rows the savings_goals table may hold
MaxGoals == 2
\* contributions made in one run
MaxContrib == 2

(* ------------------------------ inputs -------------------------------- *)
None == "None"
\* an absent --date or --month option
NoDate == <<>>
Emails == {"ann@x.org", "bob@x.org"}
\* datetime.now() / date.today() of the run
Today == <<2024, 3, 5>>
Months == {<<2024, 3>>, <<2024, 4>>}
GoalNames == {"Vacation", "Car"}
\* what is entered for a transaction: <<amount, category, type, date>>.
\* The budget scenario (Groceries, expense, 2024-03) with each filter of
\* the aggregation varied on its own, and an amount validation rejects.
TxInputs ==
    { <<1, "Groceries", "expense", <<2024, 3, 5>> >>,
      <<2, "Groceries", "expense", <<2024, 3, 20>> >>,
      <<1, "Rent",      "expense", <<2024, 3, 5>> >>,
      <<1, "Groceries", "income",  <<2024, 3, 5>> >>,
      <<1, "Groceries", "expense", <<2024, 4, 1>> >>,
      <<1, "Groceries", "expense", NoDate>>,
      <<-1, "Groceries", "expense", <<2024, 3, 5>> >> }
\* what is entered for a budget: <<category, limit, month>>
BudgetInputs ==
    { <<"Groceries", 1, <<2024, 3>> >>,
      <<"Groceries", 2, <<2024, 3>> >>,
      <<"Rent",      1, <<2024, 3>> >>,
      <<"Groceries", 1, <<2024, 4>> >>,
      <<"Groceries", 2, NoDate>>,
      <<"Groceries", 0, <<2024, 3>> >> }
\* tag names: the first two are created by add_tag, the last never is
TagNames == {"food", "fun"}
\* the tag-name lists asked for with a transaction; None is the empty list
TagLists ==
    { <<>>, <<"food">>, <<"food", "fun">>, <<"nope">>, <<"nope", "food">>,
      <<"food", "food">>, <<"fun", "nope", "fun">> }
\* the names and emails get_or_create_user is called with
Names == {"Ann", "Bob"}
UserEmails == Emails \cup {"cat@x.org"}
\* what create_user_profile is given: <<phone, address, occupation,
\* annual_income, financial_goal, risk_tolerance>>, each field given
\* in one input and left empty in the other
ProfileInputs ==
    { <<"555", "", "dev", 50, "", "low">>,
      <<"", "Elm St", "", 0, "save", "">> }
\* a call that passes a phone number and leaves every other argument at
\* its default (cli.py 493-495)
PhoneOnly == <<"777", "", "", 0, "", "medium">>
\* What the store does to a scope: nothing, an error raised by a statement
\* of the body (a query, a flush), or an error raised by session.commit().
Faults == {"none", "body", "commit"}
\* what is entered as a savings target and as a contribution
RawTargets == {0, 5, 10}
RawContributions == {-1, 0, 5, 6}
\* The first user registered works through all of the inputs above.  Any
\* later user enters the rows that collide with the first user's: the same
\* category, month and goal name.
OtherTxInputs == { <<1, "Groceries", "expense", <<2024, 3, 5>> >> }
OtherBudgetInputs == { <<"Groceries", 1, <<2024, 3>> >> }
OtherGoalInputs == { <<"Vacation", 5>> }
OtherContributionInputs == { <<"Vacation", 5>>, <<"Car", 5>> }

(* --------------------------- pure helpers ----------------------------- *)
\* date.strftime("%Y-%m")
StrftimeYm(d) == SubSeq(d, 1, 2)

\* datetime.now().strftime("%Y-%m")
NowMonth == StrftimeYm(Today)

\* column LIKE 'pattern%' on the ISO text of a date
Like(d, pattern) ==
    /\ Len(pattern) <= Len(d)
    /\ SubSeq(d, 1, Len(pattern)) = pattern

\* session.query(Model).filter...().all(): the rows of table that satisfy
\* the filter, in primary-key order; .first() is the first of them
QueryAll(table, P(_)) == SelectSeq(table, P)

(* ------------------- validation (lib/helpers.py) ---------------------- *)
\* validate_amount(raw) -> (valid, value): an amount is accepted when it
\* is a positive number, and is passed on unchanged
ValidateAmount(raw) == raw > 0

(* ---------------------- Budget (lib/db/models.py) --------------------- *)
\* budget_matches without the test of the transaction type
budget_matches_any_type(self, t) ==
    /\ t.category = self.category
    /\ StrftimeYm(t.transaction_date) = self.month

\* the filter of Budget.get_spent_amount
budget_matches(self, t) ==
    /\ t.category = self.category
    /\ t.transaction_type = "expense"
    /\ StrftimeYm(t.transaction_date) = self.month

\* the loop of Budget.get_spent_amount from position i with running sum
RECURSIVE spent_loop(_, _, _, _)
spent_loop(self, txs, i, spent) ==
    IF i > Len(txs) THEN spent
    ELSE spent_loop(self, txs, i + 1,
                    IF budget_matches(self, txs[i])
                    THEN spent + txs[i].amount ELSE spent)

\* get_spent_amount whose loop leaves out the first transaction
get_spent_amount_skipping_first(self, txs) == spent_loop(self, txs, 2, 0)

get_spent_amount(self, txs) == spent_loop(self, txs, 1, 0)

\* get_remaining_amount with the operands of the subtraction swapped
get_remaining_amount_swapped(self, txs) ==
    LET spent == get_spent_amount(self, txs)
    IN  spent - self.limit_amount

get_remaining_amount(self, txs) ==
    LET spent == get_spent_amount(self, txs)
    IN  self.limit_amount - spent

\* is_over_budget that counts spending equal to the limit as over
is_over_budget_at_limit(self, txs) == get_remaining_amount(self, txs) <= 0

is_over_budget(self, txs) == get_remaining_amount(self, txs) < 0

(* ------------------ get_db_session (lib/db/models.py) ----------------- *)
\* get_db_session without the finally clause: a scope that raised stays open
get_db_session_no_finally(body_raises, commit_raises) ==
    <<"SessionLocal", "yield">>
    \o (IF body_raises THEN <<"rollback", "raise">>
        ELSE IF commit_raises THEN <<"commit raised", "rollback", "raise">>
        ELSE <<"commit", "close">>)

\* The calls one scope makes on its session, in order.  The body runs at
\* "yield"; leaving the with block, by falling off its end or by a return
\* inside it, resumes the generator at session.commit().
get_db_session(body_raises, commit_raises) ==
    <<"SessionLocal", "yield">>
    \o (IF body_raises THEN <<"rollback", "raise">>
        ELSE IF commit_raises THEN <<"commit raised", "rollback", "raise">>
        ELSE <<"commit">>)
    \o <<"close">>

(* ------------------- FinanceTrackerCLI (lib/cli.py) ------------------- *)
\* current_user_id = None is 0: "if not self.current_user_id" holds of both
NotLoggedIn == current_user_id = 0

\* a method that opens its scope before it tests current_user_id
scope_of_call_opening_first == get_db_session(FALSE, FALSE)

\* a user-scoped method returns before its with block when nobody is
\* logged in; otherwise it opens one scope, which commits
scope_of_call ==
    IF NotLoggedIn THEN <<>> ELSE get_db_session(FALSE, FALSE)

\* positions of the rows of table that satisfy P
Matching(table, P(_)) == {i \in DOMAIN table : P(table[i])}

\* position of the row .first() returns, 0 when there is none
First(table, P(_)) ==
    IF Matching(table, P) = {} THEN 0
    ELSE CHOOSE i \in Matching(table, P) :
             \A j \in Matching(table, P) : i <= j

\* get_or_create_user without the query for the email
get_or_create_user_always_insert(name, email) ==
    /\ users' = Append(users, [name |-> name, email |-> email])
    /\ current_user_id' = Len(users) + 1
    /\ ret' = [op |-> "get_or_create_user", value |-> Len(users) + 1,
               name |-> name, email |-> email]
    /\ session' = get_db_session(FALSE, FALSE)
    /\ UNCHANGED <<tags, transaction_tags, profiles>>
    /\ UNCHANGED <<transactions, budgets, goals, last_limit,
                   contributed, n_contributions>>

get_or_create_user(name, email) ==
    LET found == First(users, LAMBDA u : u.email = email)
        user_id == IF found = 0 THEN Len(users) + 1 ELSE found
    IN  /\ users' = IF found = 0
                    THEN Append(users, [name |-> name, email |-> email])
                    ELSE users
        /\ current_user_id' = user_id
        /\ ret' = [op |-> "get_or_create_user", value |-> user_id,
                   name |-> name, email |-> email]
        /\ session' = get_db_session(FALSE, FALSE)
        /\ UNCHANGED <<tags, transaction_tags, profiles>>
        /\ UNCHANGED <<transactions, budgets, goals, last_limit,
                        contributed, n_contributions>>

\* add_transaction that writes over the newest stored transaction
add_transaction_replacing_last(amount, category, transaction_type, transaction_date) ==
    /\ transactions' =
          IF NotLoggedIn THEN transactions
          ELSE SubSeq(transactions, 1, Len(transactions) - 1)
               \o <<[amount |-> amount + 1, category |-> category,
                      transaction_type |-> transaction_type,
                      transaction_date |-> Today,
                      user_id |-> current_user_id]>>
    /\ ret' = [op |-> "add_transaction", value |-> ~NotLoggedIn]
    /\ session' = scope_of_call
    /\ UNCHANGED <<tags, transaction_tags, profiles>>
    /\ UNCHANGED <<users, current_user_id, budgets, goals,
                   last_limit, contributed, n_contributions>>

add_transaction(amount, category, transaction_type, transaction_date) ==
    IF NotLoggedIn
    THEN /\ ret' = [op |-> "add_transaction", value |-> FALSE]
         /\ session' = scope_of_call
         /\ UNCHANGED <<tags, transaction_tags, profiles>>
         /\ UNCHANGED <<users, current_user_id, transactions, budgets, goals,
                        last_limit, contributed, n_contributions>>
    ELSE LET trans_type == IF transaction_type = "income"
                           THEN "income" ELSE "expense"
             transaction ==
                 [amount |-> amount, category |-> category,
                  transaction_type |-> trans_type,
                  transaction_date |-> IF transaction_date = NoDate
                                       THEN Today ELSE transaction_date,
                  user_id |-> current_user_id]
         IN  /\ transactions' = Append(transactions, transaction)
             /\ ret' = [op |-> "add_transaction", value |-> TRUE]
             /\ session' = scope_of_call
             /\ UNCHANGED <<tags, transaction_tags, profiles>>
             /\ UNCHANGED <<users, current_user_id, budgets, goals,
                            last_limit, contributed, n_contributions>>

\* add_budget without the lookup of the existing budget: always inserts
add_budget_always_insert(category, limit_amount, month_arg) ==
    IF NotLoggedIn
    THEN /\ ret' = [op |-> "add_budget", value |-> FALSE,
                   said |-> "Error: No user logged in"]
         /\ session' = scope_of_call
         /\ UNCHANGED <<tags, transaction_tags, profiles>>
         /\ UNCHANGED <<users, current_user_id, transactions, budgets, goals,
                        last_limit, contributed, n_contributions>>
    ELSE LET month == IF month_arg = NoDate THEN NowMonth ELSE month_arg
         IN  /\ budgets' = Append(budgets,
                                  [category |-> category,
                                   limit_amount |-> limit_amount,
                                   month |-> month,
                                   user_id |-> current_user_id])
             /\ last_limit' =
                   {k \in last_limit : ~ /\ k.user_id = current_user_id
                                          /\ k.category = category
                                          /\ k.month = month}
                   \cup {[user_id |-> current_user_id, category |-> category,
                          month |-> month, limit_amount |-> limit_amount]}
             /\ ret' = [op |-> "add_budget", value |-> TRUE,
                        said |-> "Budget set"]
             /\ session' = scope_of_call
             /\ UNCHANGED <<tags, transaction_tags, profiles>>
             /\ UNCHANGED <<users, current_user_id, transactions, goals,
                            contributed, n_contributions>>

add_budget(category, limit_amount, month_arg) ==
    IF NotLoggedIn
    THEN /\ ret' = [op |-> "add_budget", value |-> FALSE,
                   said |-> "Error: No user logged in"]
         /\ session' = scope_of_call
         /\ UNCHANGED <<tags, transaction_tags, profiles>>
         /\ UNCHANGED <<users, current_user_id, transactions, budgets, goals,
                        last_limit, contributed, n_contributions>>
    ELSE LET month == IF month_arg = NoDate THEN NowMonth ELSE month_arg
             existing_budget ==
                 First(budgets, LAMBDA b : /\ b.user_id = current_user_id
                                           /\ b.category = category
                                           /\ b.month = month)
         IN  /\ budgets' =
                   IF existing_budget # 0
                   THEN [budgets EXCEPT
                            ![existing_budget].limit_amount = limit_amount]
                   ELSE Append(budgets,
                               [category |-> category,
                                limit_amount |-> limit_amount,
                                month |-> month,
                                user_id |-> current_user_id])
             /\ last_limit' =
                   {k \in last_limit : ~ /\ k.user_id = current_user_id
                                          /\ k.category = category
                                          /\ k.month = month}
                   \cup {[user_id |-> current_user_id, category |-> category,
                          month |-> month, limit_amount |-> limit_amount]}
             /\ ret' = [op |-> "add_budget", value |-> TRUE,
                        said |-> IF existing_budget # 0
                                 THEN "Updated budget" ELSE "Budget set"]
             /\ session' = scope_of_call
             /\ UNCHANGED <<tags, transaction_tags, profiles>>
             /\ UNCHANGED <<users, current_user_id, transactions, goals,
                            contributed, n_contributions>>

\* The Progress column of view_budgets as the fraction <<num, den>>; a
\* fraction with denominator 0 stands for the ZeroDivisionError that a
\* division by 0 raises.
progress_pct(spent, limit_amount) ==
    IF limit_amount > 0 THEN <<spent * 100, limit_amount>> ELSE <<0, 1>>

\* one row of the table and of the list view_budgets returns
budget_row(budget, txs) ==
    LET spent == get_spent_amount(budget, txs)
        remaining == get_remaining_amount(budget, txs)
    IN  [category |-> budget.category, limit_amount |-> budget.limit_amount,
         month |-> budget.month, user_id |-> budget.user_id,
         spent |-> spent, remaining |-> remaining,
         progress_pct |-> progress_pct(spent, budget.limit_amount),
         status |-> IF remaining >= 0 THEN "Good" ELSE "Over"]

\* the list view_budgets returns for the logged-in user
view_budgets_result(month_arg) ==
    LET month == IF month_arg = NoDate THEN NowMonth ELSE month_arg
        bs == QueryAll(budgets, LAMBDA b : /\ b.user_id = current_user_id
                                           /\ b.month = month)
        txs == QueryAll(transactions,
                        LAMBDA t : /\ t.user_id = current_user_id
                                   /\ Like(t.transaction_date, month))
    IN  [i \in DOMAIN bs |-> budget_row(bs[i], txs)]

view_budgets(month_arg) ==
    /\ ret' = [op |-> "view_budgets",
               value |-> IF NotLoggedIn THEN <<>>
                         ELSE view_budgets_result(month_arg)]
    /\ session' = scope_of_call
    /\ UNCHANGED <<tags, transaction_tags, profiles>>
    /\ UNCHANGED <<users, current_user_id, transactions, budgets, goals,
                   last_limit, contributed, n_contributions>>

(* -------------------- SavingsGoal (lib/db/models.py) ------------------ *)
\* add_contribution that marks the goal achieved only above the target
add_contribution_above(self, amount) ==
    LET current == self.current_amount + amount
    IN  [self EXCEPT !.current_amount = current,
                     !.is_achieved = IF current > self.target_amount
                                     THEN TRUE ELSE self.is_achieved]

\* add_contribution that assigns the amount instead of adding it
add_contribution_assign(self, amount) ==
    LET current == amount
    IN  [self EXCEPT !.current_amount = current,
                     !.is_achieved = IF current >= self.target_amount
                                     THEN TRUE ELSE self.is_achieved]

\* add_contribution that subtracts the amount
add_contribution_subtract(self, amount) ==
    LET current == self.current_amount - amount
    IN  [self EXCEPT !.current_amount = current,
                     !.is_achieved = IF current >= self.target_amount
                                     THEN TRUE ELSE self.is_achieved]

\* add_contribution that recomputes the flag from the new amount
add_contribution_recomputing(self, amount) ==
    LET current == self.current_amount + amount
    IN  [self EXCEPT !.current_amount = current,
                     !.is_achieved = current >= self.target_amount]

\* the goal after self.add_contribution(amount)
add_contribution(self, amount) ==
    LET current == self.current_amount + amount
    IN  [self EXCEPT !.current_amount = current,
                     !.is_achieved = IF current >= self.target_amount
                                     THEN TRUE ELSE self.is_achieved]

\* get_progress_percentage without the cap at 100
get_progress_percentage_uncapped(self) ==
    IF self.target_amount <= 0 THEN <<0, 1>>
    ELSE <<self.current_amount * 100, self.target_amount>>

\* SavingsGoal.get_progress_percentage as the fraction <<num, den>>, den > 0
get_progress_percentage(self) ==
    IF self.target_amount <= 0 THEN <<0, 1>>
    ELSE IF self.current_amount * 100 <= 100 * self.target_amount
         THEN <<self.current_amount * 100, self.target_amount>>
         ELSE <<100, 1>>

\* get_remaining_amount without the floor at 0
goal_remaining_amount_unfloored(self) ==
    self.target_amount - self.current_amount

\* SavingsGoal.get_remaining_amount
goal_remaining_amount(self) ==
    IF self.target_amount - self.current_amount >= 0
    THEN self.target_amount - self.current_amount ELSE 0

add_savings_goal(name, target_amount) ==
    IF NotLoggedIn
    THEN /\ ret' = [op |-> "add_savings_goal", value |-> FALSE]
         /\ session' = scope_of_call
         /\ UNCHANGED <<tags, transaction_tags, profiles>>
         /\ UNCHANGED <<users, current_user_id, transactions, budgets, goals,
                        last_limit, contributed, n_contributions>>
    ELSE /\ goals' = Append(goals, [name |-> name,
                                    target_amount |-> target_amount,
                                    current_amount |-> 0,
                                    is_achieved |-> FALSE,
                                    user_id |-> current_user_id])
         /\ contributed' = Append(contributed, [n |-> 0, total |-> 0])
         /\ ret' = [op |-> "add_savings_goal", value |-> TRUE]
         /\ session' = scope_of_call
         /\ UNCHANGED <<tags, transaction_tags, profiles>>
         /\ UNCHANGED <<users, current_user_id, transactions, budgets,
                        last_limit, n_contributions>>

\* position of the goal update_savings_goal(name, ...) would address
find_goal(name) ==
    First(goals, LAMBDA g : g.user_id = current_user_id /\ g.name = name)

update_savings_goal(name, amount) ==
    IF NotLoggedIn \/ find_goal(name) = 0
    THEN /\ ret' = [op |-> "update_savings_goal", value |-> FALSE,
                   added |-> 0]
         /\ session' = scope_of_call
         /\ UNCHANGED <<tags, transaction_tags, profiles>>
         /\ UNCHANGED <<users, current_user_id, transactions, budgets, goals,
                        last_limit, contributed, n_contributions>>
    ELSE LET goal == find_goal(name)
         IN  /\ goals' = [goals EXCEPT
                             ![goal] = add_contribution(goals[goal], amount)]
             /\ contributed' =
                   [contributed EXCEPT
                       ![goal] = [n |-> contributed[goal].n + 1,
                                  total |-> contributed[goal].total + amount]]
             /\ n_contributions' = n_contributions + 1
             /\ ret' = [op |-> "update_savings_goal", value |-> TRUE,
                        added |-> amount]
             /\ session' = scope_of_call
             /\ UNCHANGED <<tags, transaction_tags, profiles>>
             /\ UNCHANGED <<users, current_user_id, transactions, budgets,
                            last_limit>>

\* SavingsGoal.to_dict as view_savings_goals returns it
goal_to_dict(goal) ==
    [name |-> goal.name, target_amount |-> goal.target_amount,
     current_amount |-> goal.current_amount,
     is_achieved |-> goal.is_achieved,
     progress_percentage |-> get_progress_percentage(goal),
     remaining_amount |-> goal_remaining_amount(goal),
     user_id |-> goal.user_id]

view_savings_goals ==
    /\ ret' = [op |-> "view_savings_goals",
               value |-> IF NotLoggedIn THEN <<>>
                         ELSE LET gs == QueryAll(goals,
                                     LAMBDA g : g.user_id = current_user_id)
                              IN  [i \in DOMAIN gs |-> goal_to_dict(gs[i])]]
    /\ session' = scope_of_call
    /\ UNCHANGED <<tags, transaction_tags, profiles>>
    /\ UNCHANGED <<users, current_user_id, transactions, budgets, goals,
                   last_limit, contributed, n_contributions>>

(* ---------------------- tags (lib/cli.py) ----------------------------- *)
\* add_tag has no test of current_user_id: it always opens its scope
add_tag(name) ==
    LET existing_tag == First(tags, LAMBDA n : n = name)
    IN  /\ tags' = IF existing_tag # 0 THEN tags ELSE Append(tags, name)
        /\ ret' = [op |-> "add_tag", value |-> existing_tag = 0]
        /\ session' = get_db_session(FALSE, FALSE)
        /\ UNCHANGED <<transaction_tags, profiles>>
        /\ UNCHANGED <<users, current_user_id, transactions, budgets, goals,
                       last_limit, contributed, n_contributions>>

\* the loop over tag_names, leaving at the first name that is not a tag
RECURSIVE tag_loop_break(_, _, _)
tag_loop_break(tag_names, i, found) ==
    IF i > Len(tag_names) THEN found
    ELSE LET tag == First(tags, LAMBDA n : n = tag_names[i])
         IN  IF tag # 0
             THEN tag_loop_break(tag_names, i + 1, Append(found, tag))
             ELSE found

\* the loop over tag_names: transaction.tags, a list, gets the tag of
\* every name that is one, in the order asked for, once per occurrence
RECURSIVE tag_loop(_, _, _)
tag_loop(tag_names, i, found) ==
    IF i > Len(tag_names) THEN found
    ELSE LET tag == First(tags, LAMBDA n : n = tag_names[i])
         IN  tag_loop(tag_names, i + 1,
                      IF tag # 0 THEN Append(found, tag) ELSE found)

\* the names the loop warns about ("not found, skipping")
warnings(tag_names) ==
    QueryAll(tag_names, LAMBDA n : First(tags, LAMBDA m : m = n) = 0)

\* a list without its repetitions, first occurrences kept
RECURSIVE distinct(_, _, _)
distinct(list, i, seen) ==
    IF i > Len(list) THEN seen
    ELSE distinct(list, i + 1,
                  IF \E k \in DOMAIN seen : seen[k] = list[i]
                  THEN seen ELSE Append(seen, list[i]))

\* The rows the flush at commit inserts into transaction_tags for a new
\* transaction.  The flush belongs to the ORM, whose version the
\* repository does not fix: with per_element it writes one row per element
\* of transaction.tags, without it one row per tag (the other side of the
\* relationship, a pending set, is flushed first).  Both are kept.
association_rows(transaction_id, attached, per_element) ==
    LET written == IF per_element THEN attached
                   ELSE distinct(attached, 1, <<>>)
    IN  [k \in DOMAIN written |-> <<transaction_id, written[k]>>]

\* the primary key (transaction_id, tag_id) of transaction_tags rejects
\* the insert of rows that repeat a pair, one of the table's or one of
\* their own: IntegrityError
violates_primary_key(rows) ==
    \E k, l \in DOMAIN rows : k # l /\ rows[k] = rows[l]

add_transaction_with_tags(amount, category, transaction_type, tag_names, transaction_date, per_element) ==
    IF NotLoggedIn
    THEN /\ ret' = [op |-> "add_transaction_with_tags", value |-> FALSE,
                    asked |-> tag_names, warned |-> <<>>, attached |-> <<>>]
         /\ session' = <<>>
         /\ UNCHANGED <<tags, transaction_tags, profiles>>
         /\ UNCHANGED <<users, current_user_id, transactions, budgets, goals,
                        last_limit, contributed, n_contributions>>
    ELSE LET trans_type == IF transaction_type = "income"
                           THEN "income" ELSE "expense"
             transaction ==
                 [amount |-> amount, category |-> category,
                  transaction_type |-> trans_type,
                  transaction_date |-> IF transaction_date = NoDate
                                       THEN Today ELSE transaction_date,
                  user_id |-> current_user_id]
             attached == tag_loop(tag_names, 1, <<>>)
             rows == association_rows(Len(transactions) + 1, attached,
                                      per_element)
             commit_raises == violates_primary_key(transaction_tags \o rows)
         IN  /\ transactions' = IF commit_raises THEN transactions
                                ELSE Append(transactions, transaction)
             /\ transaction_tags' = IF commit_raises THEN transaction_tags
                                    ELSE transaction_tags \o rows
             /\ ret' = [op |-> "add_transaction_with_tags",
                        value |-> ~commit_raises,
                        asked |-> tag_names,
                        warned |-> warnings(tag_names),
                        attached |-> attached]
             /\ session' = get_db_session(FALSE, commit_raises)
             /\ UNCHANGED <<tags, profiles>>
             /\ UNCHANGED <<users, current_user_id, budgets, goals,
                            last_limit, contributed, n_contributions>>

(* ------------------ generate_report (lib/cli.py) ---------------------- *)
\* sum(t.amount for t in txs)
RECURSIVE sum_amounts(_, _)
sum_amounts(txs, i) ==
    IF i > Len(txs) THEN 0 ELSE txs[i].amount + sum_amounts(txs, i + 1)

\* A dict is the sequence of its items <<key, value>> in insertion order.
\* d[category] += amount on a defaultdict(float)
dict_add(d, category, amount) ==
    LET at == First(d, LAMBDA item : item[1] = category)
    IN  IF at = 0 THEN Append(d, <<category, 0 + amount>>)
        ELSE [d EXCEPT ![at] = <<category, d[at][2] + amount>>]

\* the loop that fills category_expenses or category_income
RECURSIVE category_loop(_, _, _)
category_loop(txs, i, d) ==
    IF i > Len(txs) THEN d
    ELSE category_loop(txs, i + 1,
                       dict_add(d, txs[i].category, txs[i].amount))

\* sorted() that puts an item in front of the items equal to it
RECURSIVE sorted_unstable(_, _, _)
sorted_unstable(items, i, acc) ==
    IF i > Len(items) THEN acc
    ELSE LET k == Cardinality({j \in DOMAIN acc : acc[j][2] > items[i][2]})
         IN  sorted_unstable(items, i + 1,
                             SubSeq(acc, 1, k) \o <<items[i]>>
                                 \o SubSeq(acc, k + 1, Len(acc)))

\* sorted(d.items(), key=lambda x: x[1], reverse=True): by value, largest
\* first; the sort is stable, so equal values keep the order of the dict
RECURSIVE sorted_by_amount(_, _, _)
sorted_by_amount(items, i, acc) ==
    IF i > Len(items) THEN acc
    ELSE LET k == Cardinality({j \in DOMAIN acc : acc[j][2] >= items[i][2]})
         IN  sorted_by_amount(items, i + 1,
                              SubSeq(acc, 1, k) \o <<items[i]>>
                                  \o SubSeq(acc, k + 1, Len(acc)))

\* a category's share without the test of the total
percentage_unguarded(amount, total) == <<amount * 100, total>>

\* a category's share of its partition as the fraction <<num, den>>
percentage(amount, total) ==
    IF total > 0 THEN <<amount * 100, total>> ELSE <<0, 1>>

\* the lines printed under "by Category": category, amount, percentage
listing(d, total) ==
    LET sorted_items == sorted_by_amount(d, 1, <<>>)
    IN  [i \in DOMAIN sorted_items |->
            <<sorted_items[i][1], sorted_items[i][2],
              percentage(sorted_items[i][2], total)>>]

\* the empty dict {}
EmptyMapping == <<>>

\* generate_report that adds every category's sum to both totals
report_data_mixed_totals(month, txs) ==
    LET income_transactions ==
            QueryAll(txs, LAMBDA t : t.transaction_type = "income")
        expense_transactions ==
            QueryAll(txs, LAMBDA t : t.transaction_type = "expense")
        total_income == sum_amounts(txs, 1)
        total_expenses == sum_amounts(expense_transactions, 1)
    IN  [month |-> month,
         total_income |-> total_income,
         total_expenses |-> total_expenses,
         net_income |-> total_income - total_expenses,
         category_expenses |-> category_loop(expense_transactions, 1, <<>>),
         category_income |-> category_loop(income_transactions, 1, <<>>),
         transactions_count |-> Len(txs)]

\* report_data of generate_report for the rows the query returned
report_data(month, txs) ==
    LET income_transactions ==
            QueryAll(txs, LAMBDA t : t.transaction_type = "income")
        expense_transactions ==
            QueryAll(txs, LAMBDA t : t.transaction_type = "expense")
        total_income == sum_amounts(income_transactions, 1)
        total_expenses == sum_amounts(expense_transactions, 1)
    IN  [month |-> month,
         total_income |-> total_income,
         total_expenses |-> total_expenses,
         net_income |-> total_income - total_expenses,
         category_expenses |-> category_loop(expense_transactions, 1, <<>>),
         category_income |-> category_loop(income_transactions, 1, <<>>),
         transactions_count |-> Len(txs)]

\* generate_report that reports on every row of the month, whoever owns it
report_query_all_users(month) ==
    QueryAll(transactions, LAMBDA t : Like(t.transaction_date, month))

\* the rows generate_report queries: the user's, dated in the month
report_query(month) ==
    QueryAll(transactions, LAMBDA t : /\ t.user_id = current_user_id
                                      /\ Like(t.transaction_date, month))

\* what generate_report returns: {} when nobody is logged in or the
\* query finds nothing, report_data otherwise
generate_report_result(month_arg) ==
    LET month == IF month_arg = NoDate THEN NowMonth ELSE month_arg
        txs == report_query(month)
    IN  IF NotLoggedIn \/ txs = <<>> THEN EmptyMapping
        ELSE report_data(month, txs)

\* generate_report that returns a zero-filled report for an empty month
generate_report_zero_filled(month_arg) ==
    LET month == IF month_arg = NoDate THEN NowMonth ELSE month_arg
        txs == report_query(month)
        data == report_data(month, txs)
    IN  /\ ret' = [op |-> "generate_report", asked |-> month_arg,
                   value |-> IF NotLoggedIn THEN EmptyMapping ELSE data,
                   expenses_listed |->
                       IF NotLoggedIn THEN <<>>
                       ELSE listing(data.category_expenses,
                                    data.total_expenses),
                   income_listed |->
                       IF NotLoggedIn THEN <<>>
                       ELSE listing(data.category_income, data.total_income)]
        /\ session' = scope_of_call
        /\ UNCHANGED <<tags, transaction_tags, profiles>>
        /\ UNCHANGED <<users, current_user_id, transactions, budgets, goals,
                       last_limit, contributed, n_contributions>>

generate_report(month_arg) ==
    LET month == IF month_arg = NoDate THEN NowMonth ELSE month_arg
        txs == report_query(month)
        data == report_data(month, txs)
        nothing == NotLoggedIn \/ txs = <<>>
    IN  /\ ret' = [op |-> "generate_report", asked |-> month_arg,
                   value |-> generate_report_result(month_arg),
                   expenses_listed |->
                       IF nothing THEN <<>>
                       ELSE listing(data.category_expenses,
                                    data.total_expenses),
                   income_listed |->
                       IF nothing THEN <<>>
                       ELSE listing(data.category_income, data.total_income)]
        /\ session' = scope_of_call
        /\ UNCHANGED <<tags, transaction_tags, profiles>>
        /\ UNCHANGED <<users, current_user_id, transactions, budgets, goals,
                       last_limit, contributed, n_contributions>>

(* ------------------ user profiles (lib/cli.py) ------------------------ *)
\* create_user_profile without the query for the user's profile
create_user_profile_always_insert(phone, address, occupation, annual_income, financial_goal, risk_tolerance) ==
    /\ profiles' =
          IF NotLoggedIn THEN profiles
          ELSE Append(profiles,
                      [user_id |-> current_user_id, phone_number |-> phone,
                       address |-> address, occupation |-> occupation,
                       annual_income |-> annual_income,
                       financial_goal |-> financial_goal,
                       risk_tolerance |-> risk_tolerance])
    /\ ret' = [op |-> "create_user_profile", value |-> ~NotLoggedIn,
               given |-> <<phone, address, occupation, annual_income,
                           financial_goal, risk_tolerance>>]
    /\ session' = scope_of_call
    /\ UNCHANGED <<tags, transaction_tags>>
    /\ UNCHANGED <<users, current_user_id, transactions, budgets, goals,
                   last_limit, contributed, n_contributions>>

create_user_profile(phone, address, occupation, annual_income, financial_goal, risk_tolerance) ==
    IF NotLoggedIn
    THEN /\ ret' = [op |-> "create_user_profile", value |-> FALSE,
                    given |-> <<phone, address, occupation, annual_income,
                                financial_goal, risk_tolerance>>]
         /\ session' = scope_of_call
         /\ UNCHANGED <<tags, transaction_tags, profiles>>
         /\ UNCHANGED <<users, current_user_id, transactions, budgets, goals,
                        last_limit, contributed, n_contributions>>
    ELSE LET existing_profile ==
                 First(profiles, LAMBDA p : p.user_id = current_user_id)
             old == profiles[existing_profile]
             updated ==
                 [user_id |-> old.user_id,
                  phone_number |->
                      IF phone # "" THEN phone ELSE old.phone_number,
                  address |-> IF address # "" THEN address ELSE old.address,
                  occupation |->
                      IF occupation # "" THEN occupation ELSE old.occupation,
                  annual_income |->
                      IF annual_income # 0 THEN annual_income
                      ELSE old.annual_income,
                  financial_goal |->
                      IF financial_goal # "" THEN financial_goal
                      ELSE old.financial_goal,
                  risk_tolerance |->
                      IF risk_tolerance # "" THEN risk_tolerance
                      ELSE old.risk_tolerance]
             profile ==
                 [user_id |-> current_user_id,
                  phone_number |-> phone,
                  address |-> address,
                  occupation |-> occupation,
                  annual_income |-> annual_income,
                  financial_goal |-> financial_goal,
                  risk_tolerance |-> risk_tolerance]
         IN  /\ profiles' =
                   IF existing_profile # 0
                   THEN [profiles EXCEPT ![existing_profile] = updated]
                   ELSE Append(profiles, profile)
             /\ ret' = [op |-> "create_user_profile", value |-> TRUE,
                        given |-> <<phone, address, occupation,
                                    annual_income, financial_goal,
                                    risk_tolerance>>]
             /\ session' = scope_of_call
             /\ UNCHANGED <<tags, transaction_tags>>
             /\ UNCHANGED <<users, current_user_id, transactions, budgets,
                            goals, last_limit, contributed, n_contributions>>

\* UserProfile.to_dict
profile_to_dict(profile) ==
    [user_id |-> profile.user_id, phone_number |-> profile.phone_number,
     address |-> profile.address, occupation |-> profile.occupation,
     annual_income |-> profile.annual_income,
     financial_goal |-> profile.financial_goal,
     risk_tolerance |-> profile.risk_tolerance]

\* what view_user_profile returns: {} when nobody is logged in or the
\* current id is not the id of a user, else the user and its profile
view_user_profile_result ==
    IF NotLoggedIn \/ current_user_id \notin DOMAIN users THEN EmptyMapping
    ELSE LET profile ==
                 First(profiles, LAMBDA p : p.user_id = current_user_id)
         IN  [user |-> [id |-> current_user_id,
                        name |-> users[current_user_id].name,
                        email |-> users[current_user_id].email],
              profile |-> IF profile = 0 THEN EmptyMapping
                          ELSE profile_to_dict(profiles[profile])]

view_user_profile ==
    /\ ret' = [op |-> "view_user_profile", value |-> view_user_profile_result]
    /\ session' = scope_of_call
    /\ UNCHANGED <<tags, transaction_tags, profiles>>
    /\ UNCHANGED <<users, current_user_id, transactions, budgets, goals,
                   last_limit, contributed, n_contributions>>

(* ------------------ view_transactions (lib/cli.py) -------------------- *)
\* [tag.name for tag in transaction.tags], which the store returns in no
\* fixed order: the set of the names
tag_names_of(transaction_id) ==
    {tags[transaction_tags[r][2]] :
        r \in {q \in DOMAIN transaction_tags :
                  transaction_tags[q][1] = transaction_id}}

\* Transaction.to_dict of the row at position id
transaction_to_dict(id) ==
    [id |-> id, amount |-> transactions[id].amount,
     category |-> transactions[id].category,
     transaction_type |-> transactions[id].transaction_type,
     transaction_date |-> transactions[id].transaction_date,
     user_id |-> transactions[id].user_id,
     tags |-> tag_names_of(id)]

\* date a is not before date b (dates are <<year, month, day>>)
NotBefore(a, b) ==
    \/ a[1] > b[1]
    \/ a[1] = b[1] /\ a[2] > b[2]
    \/ a[1] = b[1] /\ a[2] = b[2] /\ a[3] >= b[3]

\* view_transactions that queries the rows of every user
view_transactions_query_all_users == DOMAIN transactions

\* the ids of the rows view_transactions queries: the user's
view_transactions_query ==
    {i \in DOMAIN transactions : transactions[i].user_id = current_user_id}

\* The orders ORDER BY transaction_date DESC can return the queried rows
\* in: the dates do not increase; the store fixes no order among rows of
\* one date, so each such order is one.
date_desc_orders ==
    LET ids == view_transactions_query
    IN  {order \in [1 .. Cardinality(ids) -> ids] :
            /\ \A k, l \in DOMAIN order : order[k] = order[l] => k = l
            /\ \A k, l \in DOMAIN order :
                   k < l => NotBefore(transactions[order[k]].transaction_date,
                                      transactions[order[l]].transaction_date)}

\* what view_transactions returns for one such order: the first limit
\* rows as dicts
view_transactions_result(limit, order) ==
    LET n == IF Len(order) < limit THEN Len(order) ELSE limit
    IN  [k \in 1 .. n |-> transaction_to_dict(order[k])]

view_transactions(limit, order) ==
    /\ ret' = [op |-> "view_transactions", limit |-> limit,
               value |-> IF NotLoggedIn THEN <<>>
                         ELSE view_transactions_result(limit, order)]
    /\ session' = scope_of_call
    /\ UNCHANGED <<tags, transaction_tags, profiles>>
    /\ UNCHANGED <<users, current_user_id, transactions, budgets, goals,
                   last_limit, contributed, n_contributions>>

\* FinanceTrackerCLI(): a new instance, nobody logged in
FinanceTrackerCLI ==
    /\ current_user_id' = 0
    /\ ret' = [op |-> "FinanceTrackerCLI", value |-> None]
    /\ session' = <<>>
    /\ UNCHANGED <<tags, transaction_tags, profiles>>
    /\ UNCHANGED <<users, transactions, budgets, goals,
                   last_limit, contributed, n_contributions>>

(* ------------------ clear_database (lib/db/seed.py) ------------------- *)
\* Six bulk DELETE statements in one scope: user_profiles, savings_goals,
\* budgets, transactions, tags, users.  A bulk delete does not go through
\* the relationships, and there is no DELETE on transaction_tags: its
\* rows go only by the ON DELETE CASCADE of its foreign keys, which the
\* store applies when it enforces foreign keys.  The engine is created
\* without asking for that, so the build of the store decides
\* (foreign_keys); both are kept.  Ids start again at 1 in an emptied
\* table.  The instance and .current_user are not touched.
clear_database(foreign_keys) ==
    /\ profiles' = <<>>
    /\ goals' = <<>>
    /\ budgets' = <<>>
    /\ transactions' = <<>>
    /\ tags' = <<>>
    /\ users' = <<>>
    /\ transaction_tags' = IF foreign_keys THEN <<>> ELSE transaction_tags
    /\ last_limit' = {}
    /\ contributed' = <<>>
    /\ ret' = [op |-> "clear_database", value |-> None]
    /\ session' = get_db_session(FALSE, FALSE)
    /\ UNCHANGED <<current_user_id, n_contributions>>

(* --------------- a scope that raises (lib/db/models.py) --------------- *)
\* session.rollback(): what the scope wrote is discarded, every table is
\* as it was at SessionLocal()
rollback ==
    UNCHANGED <<users, transactions, budgets, goals, tags, transaction_tags,
                profiles, last_limit, contributed, n_contributions>>

\* a method whose return value stands although the commit that follows
\* its "return True" raised
raised_after_return(failure, fault) ==
    /\ rollback
    /\ ret' = [failure EXCEPT !.value = (fault = "commit")]
    /\ session' = get_db_session(fault = "body", fault = "commit")
    /\ UNCHANGED current_user_id

\* A method whose scope raised: get_db_session rolls back and re-raises,
\* the exception leaves the with block, the method's "except Exception"
\* prints it and returns False.  failure is what the method then reports.
raised(failure, fault) ==
    /\ rollback
    /\ ret' = failure
    /\ session' = get_db_session(fault = "body", fault = "commit")
    /\ UNCHANGED current_user_id

\* get_or_create_user has no except clause: the error leaves the method.
\* self.current_user_id is assigned in the body, after the flush, so a
\* commit that raises leaves it assigned while the new row is rolled back.
get_or_create_user_raised(name, email, fault) ==
    LET found == First(users, LAMBDA u : u.email = email)
        user_id == IF found = 0 THEN Len(users) + 1 ELSE found
    IN  /\ rollback
        /\ current_user_id' = IF fault = "commit" THEN user_id
                               ELSE current_user_id
        /\ ret' = [op |-> "get_or_create_user", value |-> 0,
                   name |-> name, email |-> email]
        /\ session' = get_db_session(fault = "body", fault = "commit")

(* ----------------- click commands (lib/cli.py, 707-) ------------------ *)
\* a command that returns before calling a method (not logged in, or an
\* input that validation rejects) prints an error and changes nothing
Rejected == UNCHANGED vars

\* _get_logged_in_cli(): the id stored in .current_user, None without it
LoggedInCli == current_user_id # 0

\* the emails are interchangeable: ann is the first to register
\* the inputs the user at the keyboard enters
TxEntered(uid) == IF uid <= 1 THEN TxInputs ELSE OtherTxInputs
BudgetsEntered(uid) == IF uid <= 1 THEN BudgetInputs ELSE OtherBudgetInputs
GoalsEntered(uid) ==
    IF uid <= 1 THEN GoalNames \X RawTargets ELSE OtherGoalInputs
ContributionsEntered(uid) ==
    IF uid <= 1 THEN GoalNames \X RawContributions
    ELSE OtherContributionInputs

\* the name each of them gives with --name
NameOf(email) == IF email = "ann@x.org" THEN "Ann" ELSE "Bob"

login ==
    \E email \in Emails :
        /\ email = "bob@x.org" => users # <<>>
        /\ get_or_create_user(NameOf(email), email)

cli_add_transaction ==
    \E in \in TxEntered(current_user_id) :
        IF LoggedInCli /\ ValidateAmount(in[1])
        THEN /\ Len(transactions) < MaxTx
             /\ add_transaction(in[1], in[2], in[3], in[4])
        ELSE Rejected

\* the budgets table has room for a budget of this key: the key is there
\* already, or the table is not full
BudgetRoom(category, month_arg) ==
    \/ Len(budgets) < MaxBudgets
    \/ \E i \in DOMAIN budgets :
           /\ budgets[i].user_id = current_user_id
           /\ budgets[i].category = category
           /\ budgets[i].month = IF month_arg = NoDate
                                 THEN NowMonth ELSE month_arg

cli_add_budget ==
    \E in \in BudgetsEntered(current_user_id) :
        IF LoggedInCli /\ ValidateAmount(in[2])
        THEN /\ BudgetRoom(in[1], in[3])
             /\ add_budget(in[1], in[2], in[3])
        ELSE Rejected

cli_view_budgets ==
    \E month \in Months \cup {NoDate} :
        IF LoggedInCli THEN view_budgets(month) ELSE Rejected

cli_add_savings_goal ==
    \E in \in GoalsEntered(current_user_id) :
        IF LoggedInCli /\ ValidateAmount(in[2])
        THEN /\ Len(goals) < MaxGoals
             /\ add_savings_goal(in[1], in[2])
        ELSE Rejected

cli_update_savings_goal ==
    \E in \in ContributionsEntered(current_user_id) :
        IF LoggedInCli /\ ValidateAmount(in[2])
        THEN /\ n_contributions < MaxContrib
             /\ update_savings_goal(in[1], in[2])
        ELSE Rejected

cli_view_savings_goals ==
    IF LoggedInCli THEN view_savings_goals
    ELSE Rejected

(* ------------- the methods called directly, unvalidated --------------- *)
call_add_transaction ==
    \E in \in TxEntered(current_user_id) :
        /\ Len(transactions) < MaxTx
        /\ add_transaction(in[1], in[2], in[3], in[4])

call_add_budget ==
    \E in \in BudgetsEntered(current_user_id) :
        /\ BudgetRoom(in[1], in[3])
        /\ add_budget(in[1], in[2], in[3])

call_view_budgets == \E month \in Months \cup {NoDate} : view_budgets(month)

call_add_tag == \E name \in TagNames : add_tag(name)

\* a list that repeats a name has both outcomes of the flush
call_add_transaction_with_tags ==
    \E in \in OtherTxInputs, tag_names \in TagLists, per_element \in BOOLEAN :
        /\ Len(transactions) < MaxTx
        /\ per_element \/ tag_loop(tag_names, 1, <<>>)
                              # distinct(tag_loop(tag_names, 1, <<>>), 1, <<>>)
        /\ add_transaction_with_tags(in[1], in[2], in[3], tag_names, in[4],
                                     per_element)

call_generate_report ==
    \E month \in Months \cup {NoDate} : generate_report(month)

call_add_savings_goal ==
    \E in \in GoalsEntered(current_user_id) :
        /\ Len(goals) < MaxGoals
        /\ add_savings_goal(in[1], in[2])

call_update_savings_goal ==
    \E in \in ContributionsEntered(current_user_id) :
        /\ n_contributions < MaxContrib
        /\ update_savings_goal(in[1], in[2])

\* the --limit values: the default and one that cuts the list short
Limits == {1, 10}

call_view_transactions ==
    \E limit \in Limits, order \in date_desc_orders :
        view_transactions(limit, order)

call_clear_database ==
    \E foreign_keys \in BOOLEAN :
        /\ foreign_keys \/ transaction_tags # <<>>
        /\ clear_database(foreign_keys)

call_create_user_profile ==
    \E in \in ProfileInputs \cup {PhoneOnly} :
        create_user_profile(in[1], in[2], in[3], in[4], in[5], in[6])

call_get_or_create_user ==
    \E name \in Names, email \in UserEmails : get_or_create_user(name, email)

(* ------------- the methods called on a store that may fail ------------ *)
\* the store can fail a method only inside a scope the method has opened
store_login ==
    \E fault \in Faults :
        IF fault = "none" THEN get_or_create_user("Ann", "ann@x.org")
        ELSE get_or_create_user_raised("Ann", "ann@x.org", fault)

store_add_transaction ==
    \E in \in OtherTxInputs, fault \in Faults :
        /\ Len(transactions) < MaxTx
        /\ IF fault = "none" \/ NotLoggedIn
           THEN fault = "none"
                /\ add_transaction(in[1], in[2], in[3], in[4])
           ELSE raised([op |-> "add_transaction", value |-> FALSE], fault)

store_add_transaction_with_tags ==
    \E in \in OtherTxInputs, tag_names \in {<<"food">>, <<"food", "food">>},
       per_element \in BOOLEAN, fault \in Faults :
        /\ Len(transactions) < MaxTx
        /\ per_element \/ tag_loop(tag_names, 1, <<>>)
                              # distinct(tag_loop(tag_names, 1, <<>>), 1, <<>>)
        /\ IF fault = "none" \/ NotLoggedIn
           THEN fault = "none"
                /\ add_transaction_with_tags(in[1], in[2], in[3], tag_names,
                                             in[4], per_element)
           ELSE per_element
                /\ raised([op |-> "add_transaction_with_tags",
                           value |-> FALSE, asked |-> tag_names,
                           warned |-> IF fault = "body" THEN <<>>
                                      ELSE warnings(tag_names),
                           attached |-> IF fault = "body" THEN <<>>
                                        ELSE tag_loop(tag_names, 1, <<>>)],
                          fault)

store_add_budget ==
    \E in \in OtherBudgetInputs, fault \in Faults :
        /\ BudgetRoom(in[1], in[3])
        /\ IF fault = "none" \/ NotLoggedIn
           THEN fault = "none" /\ add_budget(in[1], in[2], in[3])
           ELSE raised([op |-> "add_budget", value |-> FALSE,
                        said |-> "Error adding budget"], fault)

store_add_savings_goal ==
    \E in \in OtherGoalInputs, fault \in Faults :
        /\ Len(goals) < MaxGoals
        /\ IF fault = "none" \/ NotLoggedIn
           THEN fault = "none" /\ add_savings_goal(in[1], in[2])
           ELSE raised([op |-> "add_savings_goal", value |-> FALSE], fault)

store_update_savings_goal ==
    \E in \in OtherContributionInputs, fault \in Faults :
        /\ n_contributions < MaxContrib
        /\ IF fault = "none" \/ NotLoggedIn
           THEN fault = "none" /\ update_savings_goal(in[1], in[2])
           ELSE raised([op |-> "update_savings_goal", value |-> FALSE,
                        added |-> 0], fault)

store_add_tag ==
    \E fault \in Faults :
        IF fault = "none" THEN add_tag("food")
        ELSE raised([op |-> "add_tag", value |-> FALSE], fault)

store_create_user_profile ==
    \E in \in ProfileInputs, fault \in Faults :
        IF fault = "none" \/ NotLoggedIn
        THEN fault = "none"
             /\ create_user_profile(in[1], in[2], in[3], in[4], in[5], in[6])
        ELSE raised([op |-> "create_user_profile", value |-> FALSE,
                     given |-> in], fault)

(* ------------- the derived-value methods called on a store ------------ *)
\* transaction row number k of a table filled by user uid from the inputs
stored_transaction(in, uid) ==
    [amount |-> in[1], category |-> in[2], transaction_type |-> in[3],
     transaction_date |-> IF in[4] = NoDate THEN Today ELSE in[4],
     user_id |-> uid]

\* the budget add_budget stores for an input
stored_budget(in, uid) ==
    [category |-> in[1], limit_amount |-> in[2],
     month |-> IF in[3] = NoDate THEN NowMonth ELSE in[3], user_id |-> uid]

\* the goal add_savings_goal stores, after the contributions in amounts
RECURSIVE stored_goal(_, _, _, _)
stored_goal(name, target_amount, uid, amounts) ==
    IF amounts = <<>>
    THEN [name |-> name, target_amount |-> target_amount,
          current_amount |-> 0, is_achieved |-> FALSE, user_id |-> uid]
    ELSE add_contribution(
             stored_goal(name, target_amount, uid,
                         SubSeq(amounts, 1, Len(amounts) - 1)),
             amounts[Len(amounts)])

\* the tables of up to n rows over a set of rows
TablesOver(rows, n) == UNION {[1..k -> rows] : k \in 0..n}

\* Budget.get_spent_amount(transactions) called on budget row b
call_get_spent_amount ==
    \E b \in DOMAIN budgets :
        /\ ret' = [op |-> "get_spent_amount", self |-> b,
                   value |-> get_spent_amount(budgets[b], transactions)]
        /\ UNCHANGED <<users, current_user_id, transactions, budgets, goals,
                       last_limit, contributed, n_contributions,
                       tags, transaction_tags, profiles>>
        /\ session' = <<>>

\* Budget.get_remaining_amount(transactions) called on budget row b
call_get_remaining_amount ==
    \E b \in DOMAIN budgets :
        /\ ret' = [op |-> "get_remaining_amount", self |-> b,
                   value |-> get_remaining_amount(budgets[b], transactions)]
        /\ UNCHANGED <<users, current_user_id, transactions, budgets, goals,
                       last_limit, contributed, n_contributions,
                       tags, transaction_tags, profiles>>
        /\ session' = <<>>

\* Budget.is_over_budget(transactions) called on budget row b
call_is_over_budget ==
    \E b \in DOMAIN budgets :
        /\ ret' = [op |-> "is_over_budget", self |-> b,
                   value |-> is_over_budget(budgets[b], transactions)]
        /\ UNCHANGED <<users, current_user_id, transactions, budgets, goals,
                       last_limit, contributed, n_contributions,
                       tags, transaction_tags, profiles>>
        /\ session' = <<>>

\* get_progress_percentage that keeps the capped amount in the goal
call_get_progress_percentage_capping ==
    \E g \in DOMAIN goals :
        /\ ret' = [op |-> "get_progress_percentage", self |-> g,
                   value |-> get_progress_percentage(goals[g])]
        /\ goals' = [goals EXCEPT
                         ![g].current_amount =
                             IF goals[g].current_amount > goals[g].target_amount
                             THEN goals[g].target_amount
                             ELSE goals[g].current_amount]
        /\ UNCHANGED <<users, current_user_id, transactions, budgets,
                       last_limit, contributed, n_contributions,
                       tags, transaction_tags, profiles>>
        /\ session' = <<>>

\* SavingsGoal.get_progress_percentage() called on goal row g
call_get_progress_percentage ==
    \E g \in DOMAIN goals :
        /\ ret' = [op |-> "get_progress_percentage", self |-> g,
                   value |-> get_progress_percentage(goals[g])]
        /\ UNCHANGED <<users, current_user_id, transactions, budgets, goals,
                       last_limit, contributed, n_contributions,
                       tags, transaction_tags, profiles>>
        /\ session' = <<>>

\* SavingsGoal.get_remaining_amount() called on goal row g
call_goal_remaining_amount ==
    \E g \in DOMAIN goals :
        /\ ret' = [op |-> "goal_remaining_amount", self |-> g,
                   value |-> goal_remaining_amount(goals[g])]
        /\ UNCHANGED <<users, current_user_id, transactions, budgets, goals,
                       last_limit, contributed, n_contributions,
                       tags, transaction_tags, profiles>>
        /\ session' = <<>>

(* --------------------------- specifications --------------------------- *)
Init ==
    /\ users = <<>>
    /\ current_user_id = 0
    /\ transactions = <<>>
    /\ budgets = <<>>
    /\ goals = <<>>
    /\ ret = [op |-> "init", value |-> None]
    /\ last_limit = {}
    /\ contributed = <<>>
    /\ n_contributions = 0
    /\ tags = <<>>
    /\ transaction_tags = <<>>
    /\ profiles = <<>>
    /\ session = <<>>

\* A store one user has filled through the methods: up to MaxTx
\* transactions, at most one budget, and at most one goal that has
\* received at most one contribution.
InitDerived ==
    /\ users = <<[name |-> "Ann", email |-> "ann@x.org"]>>
    /\ current_user_id = 1
    /\ \E ins \in TablesOver(TxInputs, MaxTx) :
           transactions = [k \in DOMAIN ins |-> stored_transaction(ins[k], 1)]
    /\ \E ins \in TablesOver(BudgetInputs, 1) :
           /\ budgets = [k \in DOMAIN ins |-> stored_budget(ins[k], 1)]
           /\ last_limit = {stored_budget(ins[k], 1) : k \in DOMAIN ins}
    /\ \E gs \in TablesOver(RawTargets, 1),
          amounts \in TablesOver(RawContributions, 1) :
           /\ goals = [k \in DOMAIN gs |->
                          stored_goal("Vacation", gs[k], 1, amounts)]
           /\ contributed = [k \in DOMAIN gs |->
                                [n |-> Len(amounts),
                                 total |-> IF amounts = <<>> THEN 0
                                           ELSE amounts[1]]]
           /\ n_contributions = IF gs = <<>> THEN 0 ELSE Len(amounts)
           /\ gs = <<>> => amounts = <<>>
    /\ ret = [op |-> "init", value |-> None]
    /\ tags = <<>>
    /\ transaction_tags = <<>>
    /\ profiles = <<>>
    /\ session = <<>>

\* A store Bob (user 2) has written to before Ann (user 1) logs in: each
\* of a transaction, a budget, a goal with at most one contribution and a
\* profile of his is there or not.  Ann has no rows yet.
InitShared ==
    /\ users = <<[name |-> "Ann", email |-> "ann@x.org"],
                 [name |-> "Bob", email |-> "bob@x.org"]>>
    /\ current_user_id = 1
    /\ \E ins \in TablesOver(OtherTxInputs, 1) :
           transactions = [k \in DOMAIN ins |-> stored_transaction(ins[k], 2)]
    /\ \E ins \in TablesOver({<<"Groceries", 2, <<2024, 3>> >>}, 1) :
           /\ budgets = [k \in DOMAIN ins |-> stored_budget(ins[k], 2)]
           /\ last_limit = {stored_budget(ins[k], 2) : k \in DOMAIN ins}
    /\ \E gs \in TablesOver({10}, 1), amounts \in TablesOver({5}, 1) :
           /\ goals = [k \in DOMAIN gs |->
                          stored_goal("Vacation", gs[k], 2, amounts)]
           /\ contributed = [k \in DOMAIN gs |->
                                [n |-> Len(amounts),
                                 total |-> IF amounts = <<>> THEN 0
                                           ELSE amounts[1]]]
           /\ n_contributions = IF gs = <<>> THEN 0 ELSE Len(amounts)
           /\ gs = <<>> => amounts = <<>>
    /\ \E ins \in TablesOver({<<"555", "", "dev", 50, "", "low">>}, 1) :
           profiles = [k \in DOMAIN ins |->
                          [user_id |-> 2, phone_number |-> ins[k][1],
                           address |-> ins[k][2], occupation |-> ins[k][3],
                           annual_income |-> ins[k][4],
                           financial_goal |-> ins[k][5],
                           risk_tolerance |-> ins[k][6]]]
    /\ ret = [op |-> "init", value |-> None]
    /\ tags = <<>>
    /\ transaction_tags = <<>>
    /\ session = <<>>

\* the commands on transactions and budgets
NextBudget ==
    \/ login
    \/ cli_add_transaction
    \/ cli_add_budget
    \/ cli_view_budgets

\* the commands on savings goals
NextGoal ==
    \/ login
    \/ cli_add_savings_goal
    \/ cli_update_savings_goal
    \/ cli_view_savings_goals

\* FinanceTrackerCLI used as a library: no validation in front of it
NextBudgetApi ==
    \/ login
    \/ call_add_transaction
    \/ call_add_budget
    \/ call_view_budgets

NextGoalApi ==
    \/ login
    \/ call_add_savings_goal
    \/ call_update_savings_goal
    \/ view_savings_goals

\* transactions and the monthly report on them
NextReport ==
    \/ login
    \/ call_add_transaction
    \/ call_generate_report

\* tags and the transactions that carry them
NextTags ==
    \/ login
    \/ call_add_tag
    \/ call_add_transaction_with_tags

\* the derived values asked of a store, directly and through the views
NextDerived ==
    \/ call_get_spent_amount
    \/ call_get_remaining_amount
    \/ call_is_over_budget
    \/ call_get_progress_percentage
    \/ call_goal_remaining_amount
    \/ call_view_budgets
    \/ view_savings_goals
    \/ call_generate_report

\* every writing method, on a store that may fail it
NextStore ==
    \/ store_login
    \/ store_add_transaction
    \/ store_add_transaction_with_tags
    \/ store_add_budget
    \/ store_add_savings_goal
    \/ store_update_savings_goal
    \/ store_add_tag
    \/ store_create_user_profile

\* the writing methods on a store that works: no scope rolls back
NextWorking ==
    /\ NextStore
    /\ \A k \in DOMAIN session' : session'[k] # "rollback"

\* The writing methods and the clearing of the store.  Whoever was logged
\* in when the store was cleared logs in again before doing anything else.
NextClear ==
    \/ /\ NextWorking
       /\ \/ current_user_id \in DOMAIN users \cup {0}
          \/ ret'.op = "get_or_create_user"
    \/ call_clear_database

\* every method of a FinanceTrackerCLI instance, and new instances with
\* nobody logged in
NextCli ==
    \/ NextWorking
    \/ call_view_transactions
    \/ call_view_budgets
    \/ view_savings_goals
    \/ call_generate_report
    \/ view_user_profile
    \/ FinanceTrackerCLI

\* Ann on the store she shares with Bob: she writes rows that collide with
\* his (same category, month and goal name) and reads her own
NextShared ==
    \/ /\ \/ store_add_transaction
          \/ store_add_budget
          \/ store_add_savings_goal
          \/ store_update_savings_goal
          \/ store_create_user_profile
       /\ \A k \in DOMAIN session' : session'[k] # "rollback"
    \/ call_view_transactions
    \/ call_view_budgets
    \/ view_savings_goals
    \/ call_generate_report

\* the profiles of two users
NextProfiles ==
    \/ login
    \/ call_create_user_profile

\* logging in, under any name, as a new or as a known user
NextUsers == call_get_or_create_user

Next == NextBudget \/ NextGoal

Spec == Init /\ [][Next]_vars
SpecBudget == Init /\ [][NextBudget]_vars
SpecGoal == Init /\ [][NextGoal]_vars
SpecBudgetApi == Init /\ [][NextBudgetApi]_vars
SpecGoalApi == Init /\ [][NextGoalApi]_vars
SpecReport == Init /\ [][NextReport]_vars
SpecTags == Init /\ [][NextTags]_vars
SpecDerived == InitDerived /\ [][NextDerived]_vars
SpecStore == Init /\ [][NextStore]_vars
SpecUsers == Init /\ [][NextUsers]_vars
SpecCli == Init /\ [][NextCli]_vars
SpecClear == Init /\ [][NextClear]_vars
SpecShared == InitShared /\ [][NextShared]_vars
SpecProfiles == Init /\ [][NextProfiles]_vars

(* ------------------------- the claims' terms -------------------------- *)
\* sum of the amounts of the rows of txs at the positions in S
RECURSIVE SumAt(_, _)
SumAt(txs, S) ==
    IF S = {} THEN 0
    ELSE LET i == CHOOSE j \in S : TRUE
         IN  txs[i].amount + SumAt(txs, S \ {i})

\* the positions of txs a budget is said to count: same category, an
\* expense, dated in the budget's month
Counted(b, txs) ==
    {i \in DOMAIN txs :
        /\ txs[i].category = b.category
        /\ txs[i].transaction_type = "expense"
        /\ <<txs[i].transaction_date[1], txs[i].transaction_date[2]>> = b.month}

\* the rows of user u dated in month, which view_budgets hands to a budget
UserMonthTx(u, month) ==
    QueryAll(transactions, LAMBDA t : /\ t.user_id = u
                                      /\ Like(t.transaction_date, month))

\* collections a budget is asked about: the whole table (all users), one
\* user's rows, one user's rows of one month, and the empty collection
Collections ==
    {transactions, <<>>}
    \cup {QueryAll(transactions, LAMBDA t : t.user_id = u) : u \in DOMAIN users}
    \cup {UserMonthTx(u, m) : u \in DOMAIN users, m \in Months}

(* C1: get_spent_amount(T) is the sum of amount over exactly the rows of T
   with the budget's category, type expense and date in the budget's month;
   the owner of a row plays no part; the empty collection gives 0. *)
C1_SpentIsSumOfMatching ==
    \A i \in DOMAIN budgets :
        /\ \A T \in Collections :
               get_spent_amount(budgets[i], T) = SumAt(T, Counted(budgets[i], T))
        /\ get_spent_amount(budgets[i], <<>>) = 0

\* a budget whose spent amount over the whole table adds a matching row of
\* its owner and a matching row of another user
C1_Witness ==
    \E i \in DOMAIN budgets :
        \E j, k \in Counted(budgets[i], transactions) :
            /\ transactions[j].user_id = budgets[i].user_id
            /\ transactions[k].user_id # budgets[i].user_id
            /\ transactions[j].amount > 0
            /\ transactions[k].amount > 0
            /\ get_spent_amount(budgets[i], transactions)
                   = transactions[j].amount + transactions[k].amount

(* C2: for every budget and every collection, the spent amount is not
   negative and the remaining amount is the limit minus the spent amount of
   the same collection; the rows view_budgets returns show the same. *)
C2_SpentNonNegativeRemainingExact ==
    /\ \A i \in DOMAIN budgets : \A T \in Collections :
           /\ get_spent_amount(budgets[i], T) >= 0
           /\ get_remaining_amount(budgets[i], T)
                  = budgets[i].limit_amount - get_spent_amount(budgets[i], T)
    /\ ret.op = "view_budgets" =>
           \A r \in DOMAIN ret.value :
               /\ ret.value[r].spent >= 0
               /\ ret.value[r].remaining
                      = ret.value[r].limit_amount - ret.value[r].spent

\* view_budgets has listed a budget with a positive spent amount
C2_Witness ==
    /\ ret.op = "view_budgets"
    /\ \E r \in DOMAIN ret.value :
           /\ ret.value[r].spent = 3
           /\ ret.value[r].remaining = ret.value[r].limit_amount - 3

\* the budget a row of view_budgets was made from
RowBudget(r) ==
    [category |-> r.category, limit_amount |-> r.limit_amount,
     month |-> r.month, user_id |-> r.user_id]

(* C3: is_over_budget(T) holds exactly when the limit minus the amounts
   counted is negative: spending equal to the limit is not over, limit 0
   with positive spending is over; the status view_budgets shows is "Over"
   exactly for the budgets that are over budget. *)
C3_OverIffRemainingNegative ==
    /\ \A i \in DOMAIN budgets : \A T \in Collections :
           LET spent == SumAt(T, Counted(budgets[i], T))
           IN  /\ is_over_budget(budgets[i], T)
                      <=> budgets[i].limit_amount - spent < 0
               /\ spent = budgets[i].limit_amount
                      => ~is_over_budget(budgets[i], T)
               /\ budgets[i].limit_amount = 0 /\ spent > 0
                      => is_over_budget(budgets[i], T)
    /\ ret.op = "view_budgets" =>
           \A r \in DOMAIN ret.value :
               (ret.value[r].status = "Over")
                   <=> is_over_budget(RowBudget(ret.value[r]),
                                      UserMonthTx(ret.value[r].user_id,
                                                  ret.value[r].month))

\* view_budgets has listed a budget of limit 0 with positive spending as
\* Over and a budget spent exactly to its limit as Good
C3_Witness ==
    /\ ret.op = "view_budgets"
    /\ \E r, q \in DOMAIN ret.value :
           /\ ret.value[r].limit_amount = 0
           /\ ret.value[r].spent > 0
           /\ ret.value[r].status = "Over"
           /\ ret.value[q].limit_amount > 0
           /\ ret.value[q].spent = ret.value[q].limit_amount
           /\ ret.value[q].status = "Good"

\* the rows of the budgets table with the key of k
WithKey(k) ==
    {i \in DOMAIN budgets : /\ budgets[i].user_id = k.user_id
                            /\ budgets[i].category = k.category
                            /\ budgets[i].month = k.month}

(* C4: after any sequence of add_budget calls the table holds at most one
   budget per (user, category, month), and its limit is the limit given in
   the most recent add_budget call for that key. *)
C4_OneBudgetPerKey ==
    /\ \A i, j \in DOMAIN budgets : j \in WithKey(budgets[i]) => i = j
    /\ \A k \in last_limit :
           \E i \in WithKey(k) : budgets[i].limit_amount = k.limit_amount

\* add_budget has just updated a budget to a limit other than the one it
\* was created with, beside a budget of another user with the same
\* category and month
C4_Witness ==
    /\ ret.op = "add_budget"
    /\ ret.said = "Updated budget"
    /\ Len(budgets) = 2
    /\ budgets[1].category = budgets[2].category
    /\ budgets[1].month = budgets[2].month
    /\ budgets[1].user_id # budgets[2].user_id
    /\ budgets[1].limit_amount # budgets[2].limit_amount

(* C5: a goal created with current_amount 0, is_achieved false and a
   positive target that has received only positive contributions has
   is_achieved = (current_amount >= target_amount) after every step. *)
C5_AchievedIffReachedPositive ==
    \A i \in DOMAIN goals :
        goals[i].is_achieved
            <=> goals[i].current_amount >= goals[i].target_amount

\* one goal that reached its target exactly and is achieved, beside one
\* that received a contribution and is still short of its target
C5_Witness ==
    \E i, j \in DOMAIN goals :
        /\ contributed[i].n > 0
        /\ goals[i].current_amount = goals[i].target_amount
        /\ goals[i].is_achieved
        /\ contributed[j].n > 0
        /\ goals[j].current_amount < goals[j].target_amount
        /\ ~goals[j].is_achieved

(* C6: add_contribution accepts any amount, zero and negative ones too,
   and after every add_contribution call is_achieved is true exactly when
   current_amount >= target_amount. *)
C6_AchievedIffReachedAnyAmount ==
    \A i \in DOMAIN goals :
        contributed[i].n > 0 =>
            (goals[i].is_achieved
                 <=> goals[i].current_amount >= goals[i].target_amount)

(* C7: a goal that starts at 0 holds, after any sequence of contributions,
   the sum of the amounts contributed to it. *)
C7_CurrentIsSumOfContributions ==
    \A i \in DOMAIN goals : goals[i].current_amount = contributed[i].total

\* update_savings_goal has just added 5 to a goal of target 10 that had
\* received 6 before: it holds 11
C7_Witness ==
    /\ ret.op = "update_savings_goal"
    /\ ret.value
    /\ ret.added = 5
    /\ \E i \in DOMAIN goals :
           /\ goals[i].target_amount = 10
           /\ contributed[i].n = 2
           /\ contributed[i].total = 11
           /\ goals[i].current_amount = 11
    /\ n_contributions = 2

(* C8: no step decreases the current_amount of a savings goal. *)
C8_CurrentAmountMonotone ==
    [][\A i \in DOMAIN goals :
           /\ i \in DOMAIN goals'
           /\ goals'[i].current_amount >= goals[i].current_amount]_vars

\* update_savings_goal has just raised a goal that held an amount already
C8_Witness ==
    /\ ret.op = "update_savings_goal"
    /\ ret.value
    /\ \E i \in DOMAIN goals :
           /\ contributed[i].n = 2
           /\ goals[i].current_amount > ret.added
           /\ ret.added > 0

(* C9: in every reachable state of a goal the progress percentage lies in
   [0, 100], and it is exactly 100 when current_amount >= target_amount > 0. *)
C9_ProgressWithinBounds ==
    \A i \in DOMAIN goals :
        LET pct == get_progress_percentage(goals[i])
        IN  /\ pct[2] > 0
            /\ pct[1] >= 0
            /\ pct[1] <= 100 * pct[2]
            /\ goals[i].current_amount >= goals[i].target_amount
                   /\ goals[i].target_amount > 0
                   => pct[1] = 100 * pct[2]

\* view_savings_goals has listed a goal above its target at 100 percent
\* and a goal half way to its target at 50 percent
C9_Witness ==
    /\ ret.op = "view_savings_goals"
    /\ \E r, q \in DOMAIN ret.value :
           /\ ret.value[r].current_amount > ret.value[r].target_amount
           /\ ret.value[r].progress_percentage = <<100, 1>>
           /\ ret.value[q].current_amount = 5
           /\ ret.value[q].target_amount = 10
           /\ ret.value[q].progress_percentage = <<500, 10>>

\* the larger of two numbers
Max(a, b) == IF a >= b THEN a ELSE b

(* C10: SavingsGoal.get_remaining_amount() is max(target_amount -
   current_amount, 0): never negative, and 0 once current_amount has
   reached the target. *)
C10_RemainingFlooredAtZero ==
    /\ \A i \in DOMAIN goals :
           LET remaining == goal_remaining_amount(goals[i])
           IN  /\ remaining
                      = Max(goals[i].target_amount - goals[i].current_amount, 0)
               /\ remaining >= 0
               /\ goals[i].current_amount >= goals[i].target_amount
                      => remaining = 0
    /\ ret.op = "view_savings_goals" =>
           \A r \in DOMAIN ret.value :
               ret.value[r].remaining_amount
                   = Max(ret.value[r].target_amount
                             - ret.value[r].current_amount, 0)

\* view_savings_goals has listed a goal above its target with nothing
\* remaining and a goal below its target with the difference remaining
C10_Witness ==
    /\ ret.op = "view_savings_goals"
    /\ \E r, q \in DOMAIN ret.value :
           /\ ret.value[r].current_amount > ret.value[r].target_amount
           /\ ret.value[r].target_amount > 0
           /\ ret.value[r].remaining_amount = 0
           /\ ret.value[q].current_amount = 6
           /\ ret.value[q].target_amount = 10
           /\ ret.value[q].remaining_amount = 4

(* ------------------------- the report claims -------------------------- *)
\* generate_report has just returned a report that is not the empty mapping
Reported == ret.op = "generate_report" /\ DOMAIN ret.value # {}

\* the positions of the rows user u owns that are dated in month
OwnedIn(u, month) ==
    {i \in DOMAIN transactions :
        /\ transactions[i].user_id = u
        /\ <<transactions[i].transaction_date[1],
             transactions[i].transaction_date[2]>> = month}

\* those of the positions in S whose row has the given type
OfType(S, type) == {i \in S : transactions[i].transaction_type = type}

\* those of the positions in S whose row has the given category
OfCategory(S, category) == {i \in S : transactions[i].category = category}

\* the sum of the values of a mapping
RECURSIVE SumValues(_)
SumValues(d) == IF d = <<>> THEN 0 ELSE Head(d)[2] + SumValues(Tail(d))

\* what a mapping holds is, per key, the sum over the rows in S of that
\* category, each category of S having one key
Partitions(d, S) ==
    /\ \A a, b \in DOMAIN d : d[a][1] = d[b][1] => a = b
    /\ {d[a][1] : a \in DOMAIN d} = {transactions[i].category : i \in S}
    /\ \A a \in DOMAIN d :
           d[a][2] = SumAt(transactions, OfCategory(S, d[a][1]))

(* C13: in every non-empty report net_income = total_income -
   total_expenses, the values of category_expenses sum to total_expenses
   and those of category_income to total_income, every row of the month
   being counted under its own category in the partition of its type. *)
C13_ReportTotalsConsistent ==
    Reported =>
        LET v == ret.value
            S == OwnedIn(current_user_id, v.month)
        IN  /\ v.net_income = v.total_income - v.total_expenses
            /\ SumValues(v.category_expenses) = v.total_expenses
            /\ SumValues(v.category_income) = v.total_income
            /\ Partitions(v.category_expenses, OfType(S, "expense"))
            /\ Partitions(v.category_income, OfType(S, "income"))
            /\ v.total_income + v.total_expenses = SumAt(transactions, S)

\* a report of a month with an income of 1 and an expense of 2: net -1
C13_Witness ==
    /\ Reported
    /\ ret.value.total_income = 1
    /\ ret.value.total_expenses = 2
    /\ ret.value.net_income = -1
    /\ ret.value.category_income = << <<"Groceries", 1>> >>
    /\ ret.value.category_expenses = << <<"Groceries", 2>> >>

\* the position in the month's rows of type at which category first occurs
FirstMet(category, type) ==
    LET S == OfCategory(OfType(OwnedIn(current_user_id, ret.value.month),
                               type), category)
    IN  CHOOSE i \in S : \A j \in S : i <= j

\* a listing holds the items of the mapping d, each once, largest sum
\* first, equal sums in the order their categories were first met
ListedInOrder(lines, d, type) ==
    /\ Len(lines) = Len(d)
    /\ \A a \in DOMAIN d :
           \E k \in DOMAIN lines : <<lines[k][1], lines[k][2]>> = d[a]
    /\ \A k, l \in DOMAIN lines :
           k < l =>
               \/ lines[k][2] > lines[l][2]
               \/ /\ lines[k][2] = lines[l][2]
                  /\ FirstMet(lines[k][1], type) < FirstMet(lines[l][1], type)

(* C14: generate_report lists the categories of each partition by summed
   amount, largest first, and of two categories with equal sums the one
   met first in the transactions comes first. *)
C14_ListedBySumDescending ==
    Reported =>
        /\ ListedInOrder(ret.expenses_listed, ret.value.category_expenses,
                         "expense")
        /\ ListedInOrder(ret.income_listed, ret.value.category_income,
                         "income")

\* two categories with equal sums, Rent met before Groceries, are listed
\* Rent first
C14_Witness ==
    /\ Reported
    /\ Len(ret.expenses_listed) = 2
    /\ ret.expenses_listed[1][1] = "Rent"
    /\ ret.expenses_listed[2][1] = "Groceries"
    /\ ret.expenses_listed[1][2] = ret.expenses_listed[2][2]

(* C15: for a logged-in user generate_report(month) returns the empty
   mapping exactly when the user has no transaction dated in the month; a
   month whose income equals its expenses gives a full report with
   net_income 0. *)
C15_EmptyIffNoTransactions ==
    ret.op = "generate_report" /\ current_user_id # 0 =>
        LET month == IF ret.asked = NoDate THEN NowMonth ELSE ret.asked
        IN  /\ DOMAIN ret.value = {}
                <=> OwnedIn(current_user_id, month) = {}
            /\ DOMAIN ret.value # {} =>
                   /\ ret.value.transactions_count > 0
                   /\ ret.value.total_income = ret.value.total_expenses
                          => ret.value.net_income = 0

\* a full report of a month whose income equals its expenses
C15_Witness ==
    /\ Reported
    /\ ret.value.total_income = 1
    /\ ret.value.total_expenses = 1
    /\ ret.value.net_income = 0
    /\ ret.value.transactions_count = 2

(* C16: generate_report(month) reports on exactly the rows the logged-in
   user owns that are dated in the month: the month returned is the month
   asked for, the totals are the sums over those rows by type, and
   transactions_count is their number, income rows plus expense rows. *)
C16_ReportsOwnMonthOnly ==
    Reported =>
        LET v == ret.value
            S == OwnedIn(current_user_id, v.month)
        IN  /\ v.month = IF ret.asked = NoDate THEN NowMonth ELSE ret.asked
            /\ v.transactions_count = Cardinality(S)
            /\ v.transactions_count
                   = Cardinality(OfType(S, "income"))
                       + Cardinality(OfType(S, "expense"))
            /\ v.total_income = SumAt(transactions, OfType(S, "income"))
            /\ v.total_expenses = SumAt(transactions, OfType(S, "expense"))

\* a report on one row while the table holds another user's row of the
\* same month
C16_Witness ==
    /\ Reported
    /\ ret.value.transactions_count = 1
    /\ \E i, j \in DOMAIN transactions :
           /\ transactions[i].user_id = current_user_id
           /\ transactions[j].user_id # current_user_id
           /\ Like(transactions[i].transaction_date, ret.value.month)
           /\ Like(transactions[j].transaction_date, ret.value.month)

(* --------------------------- the tag claims --------------------------- *)
\* the names of a list that are names of tags
Resolving(names) ==
    {names[k] : k \in DOMAIN names} \cap {tags[t] : t \in DOMAIN tags}

\* a list asks for the same existing tag more than once
RepeatsATag(names) ==
    \E k, l \in DOMAIN names :
        k # l /\ names[k] = names[l] /\ names[k] \in Resolving(names)

\* the names of the tags the association table gives a transaction
TagsOf(rows, transaction_id) ==
    {tags[rows[r][2]] : r \in {q \in DOMAIN rows : rows[q][1] = transaction_id}}

\* no pair (transaction, tag) is in the association table twice
NoPairTwice(rows) ==
    \A k, l \in DOMAIN rows : rows[k] = rows[l] => k = l

\* this step is a call of add_transaction_with_tags by a logged-in user
TaggedCall ==
    ret'.op = "add_transaction_with_tags" /\ current_user_id # 0

\* this step has stored one more transaction, of the logged-in user
Created ==
    /\ Len(transactions') = Len(transactions) + 1
    /\ SubSeq(transactions', 1, Len(transactions)) = transactions
    /\ transactions'[Len(transactions')].user_id = current_user_id

(* C17: add_transaction_with_tags warns about every name asked for that is
   not the name of a tag and goes on; unless a tag is asked for twice, the
   transaction is created, the call returns True, and the transaction has
   exactly the tags whose names were asked for and exist - none when no
   name does. *)
C17_UnresolvedTagsSkipped ==
    [][TaggedCall =>
          /\ {ret'.warned[k] : k \in DOMAIN ret'.warned}
                 = {ret'.asked[k] : k \in DOMAIN ret'.asked}
                       \ Resolving(ret'.asked)
          /\ ~RepeatsATag(ret'.asked) =>
                 /\ ret'.value
                 /\ Created
                 /\ TagsOf(transaction_tags', Len(transactions'))
                        = Resolving(ret'.asked)
                 /\ SubSeq(transaction_tags', 1, Len(transaction_tags))
                        = transaction_tags]_vars

\* a transaction asked for with the tags nope and food, food being a tag:
\* nope was warned about and the transaction carries food alone
C17_Witness ==
    /\ ret.op = "add_transaction_with_tags"
    /\ ret.value
    /\ ret.asked = <<"nope", "food">>
    /\ ret.warned = <<"nope">>
    /\ TagsOf(transaction_tags, Len(transactions)) = {"food"}

(* C18: when the list given to add_transaction_with_tags names an existing
   tag more than once, the transaction is created with the tag attached
   once, and no pair (transaction, tag) is in the association table
   twice. *)
C18_DuplicateTagAttachedOnce ==
    [][TaggedCall /\ RepeatsATag(ret'.asked) =>
          /\ ret'.value
          /\ Created
          /\ TagsOf(transaction_tags', Len(transactions'))
                 = Resolving(ret'.asked)
          /\ NoPairTwice(transaction_tags')]_vars

(* ---------------------- the derived-value claims ---------------------- *)
\* a percentage that was computed: its denominator is not 0
Computed(pct) == pct[2] # 0

\* the percentage 0
Zero(pct) == pct[1] = 0 /\ pct[2] # 0

(* C11: a percentage whose denominator is zero is 0 and nothing is raised:
   the progress of a goal with target_amount 0, the progress of a budget
   with limit_amount 0 in view_budgets, and a category's share in
   generate_report when the total of its partition is 0. *)
C11_ZeroDenominatorGivesZero ==
    /\ \A g \in DOMAIN goals :
           /\ Computed(get_progress_percentage(goals[g]))
           /\ goals[g].target_amount = 0
                  => Zero(get_progress_percentage(goals[g]))
    /\ ret.op = "view_savings_goals" =>
           \A r \in DOMAIN ret.value :
               /\ Computed(ret.value[r].progress_percentage)
               /\ ret.value[r].target_amount = 0
                      => Zero(ret.value[r].progress_percentage)
    /\ ret.op = "view_budgets" =>
           \A r \in DOMAIN ret.value :
               /\ Computed(ret.value[r].progress_pct)
               /\ ret.value[r].limit_amount = 0
                      => Zero(ret.value[r].progress_pct)
    /\ ret.op = "generate_report" =>
           /\ \A k \in DOMAIN ret.expenses_listed :
                  /\ Computed(ret.expenses_listed[k][3])
                  /\ ret.value.total_expenses = 0
                         => Zero(ret.expenses_listed[k][3])
           /\ \A k \in DOMAIN ret.income_listed :
                  /\ Computed(ret.income_listed[k][3])
                  /\ ret.value.total_income = 0
                         => Zero(ret.income_listed[k][3])

\* a report whose expenses of 1 and -1 total 0 lists the category at 0
\* percent, in a store that holds a budget of limit 0 and a goal of target 0
C11_Witness ==
    /\ ret.op = "generate_report"
    /\ DOMAIN ret.value # {}
    /\ ret.value.total_expenses = 0
    /\ ret.value.transactions_count = 2
    /\ Len(ret.expenses_listed) = 1
    /\ ret.expenses_listed[1][3] = <<0, 1>>
    /\ \E b \in DOMAIN budgets : budgets[b].limit_amount = 0
    /\ \E g \in DOMAIN goals : goals[g].target_amount = 0

\* the methods that derive a value from a budget or a goal
DerivedOps ==
    {"get_spent_amount", "get_remaining_amount", "is_over_budget",
     "get_progress_percentage", "goal_remaining_amount"}

\* what the method named op returns for row self of the tables given
DerivedValue(op, self, bs, gs, txs) ==
    CASE op = "get_spent_amount" -> get_spent_amount(bs[self], txs)
      [] op = "get_remaining_amount" -> get_remaining_amount(bs[self], txs)
      [] op = "is_over_budget" -> is_over_budget(bs[self], txs)
      [] op = "get_progress_percentage" -> get_progress_percentage(gs[self])
      [] op = "goal_remaining_amount" -> goal_remaining_amount(gs[self])

(* C12: a call of get_spent_amount, get_remaining_amount, is_over_budget,
   get_progress_percentage or SavingsGoal.get_remaining_amount changes no
   field of a budget, a goal or a transaction, and the same call made
   again straight after it returns the value it returned. *)
C12_DerivedValuesPure ==
    [][ret'.op \in DerivedOps =>
          /\ budgets' = budgets
          /\ goals' = goals
          /\ transactions' = transactions
          /\ ret'.value = DerivedValue(ret'.op, ret'.self,
                                       budgets', goals', transactions')]_vars

\* get_progress_percentage has returned 100 for a goal that holds more than
\* its target, and the goal still holds it
C12_Witness ==
    /\ ret.op = "get_progress_percentage"
    /\ ret.value = <<100, 1>>
    /\ goals[ret.self].current_amount > goals[ret.self].target_amount
    /\ goals[ret.self].target_amount > 0

\* the calls a scope makes between the yield and the close
Outcomes ==
    { <<"commit">>, <<"rollback", "raise">>,
      <<"commit raised", "rollback", "raise">> }

\* a scope in order: opened, body, one outcome, closed last
InOrder(s) ==
    /\ Len(s) >= 4
    /\ SubSeq(s, 1, 2) = <<"SessionLocal", "yield">>
    /\ SubSeq(s, 3, Len(s) - 1) \in Outcomes
    /\ s[Len(s)] = "close"

RolledBack(s) == \E k \in DOMAIN s : s[k] = "rollback"

Tables ==
    <<users, transactions, budgets, goals, tags, transaction_tags, profiles>>

\* C19: every scope a method opens runs SessionLocal, the body, then one
\* of commit or rollback followed by the re-raise, and close as its last
\* call, also when the body returned early or the body or the commit
\* raised; a method that opened no scope made no call on a session.
C19_ScopesCloseOnEveryPath ==
    /\ session = <<>> \/ InOrder(session)
    /\ ret.op = "get_or_create_user" /\ ret.value # 0 =>
           session = <<"SessionLocal", "yield", "commit", "close">>
    /\ ret.op \in {"get_or_create_user", "add_tag"} => session # <<>>

\* a scope whose commit raised after the body had written: rolled back,
\* the error raised again, closed
C19_Witness ==
    /\ ret.op = "update_savings_goal"
    /\ session = <<"SessionLocal", "yield", "commit raised", "rollback",
                   "raise", "close">>
    /\ goals # <<>>

WriteOps ==
    {"add_transaction", "add_transaction_with_tags", "add_budget",
     "add_savings_goal", "update_savings_goal", "add_tag",
     "create_user_profile"}

\* C20: a writing method whose scope rolled back, because a statement of
\* the body or the commit after "return True" raised, leaves every table
\* as it was before the call and returns False.
C20_FailedWriteRollsBackAndFails ==
    [][ ret'.op \in WriteOps /\ RolledBack(session') =>
            /\ Tables' = Tables
            /\ ret'.value = FALSE ]_vars

\* add_transaction_with_tags has failed at commit on a store that holds a
\* tagged transaction: the store still holds that one transaction and
\* its one association
C20_Witness ==
    /\ ret.op = "add_transaction_with_tags"
    /\ ret.value = FALSE
    /\ session = <<"SessionLocal", "yield", "commit raised", "rollback",
                   "raise", "close">>
    /\ Len(transactions) = 1
    /\ Len(transaction_tags) = 1

UniqueEmails ==
    \A i, j \in DOMAIN users : users[i].email = users[j].email => i = j

\* C21: after every get_or_create_user call the users table holds at most
\* one row per email, and a call with an email that is already stored
\* inserts nothing, leaves that row (its name too) as it was and sets
\* current_user_id to its id.
C21_EmailUnique ==
    [][ ret'.op = "get_or_create_user" =>
            /\ UniqueEmails'
            /\ \A i \in DOMAIN users :
                   users[i].email = ret'.email =>
                       /\ users' = users
                       /\ current_user_id' = i ]_vars

\* ann@x.org, stored first as Ann, has logged in again as Bob behind a
\* second user: still two rows, the first still Ann, and she is current
C21_Witness ==
    /\ Len(users) = 2
    /\ users[1] = [name |-> "Ann", email |-> "ann@x.org"]
    /\ ret.op = "get_or_create_user"
    /\ ret.email = "ann@x.org"
    /\ ret.name = "Bob"
    /\ current_user_id = 1

\* position of the logged-in user's profile, 0 without one
OwnProfile == First(profiles, LAMBDA p : p.user_id = current_user_id)

\* C22: the profiles table holds at most one row per user; a user's first
\* create_user_profile call inserts the row and every later call of that
\* user updates it without inserting another.
C22_OneProfilePerUser ==
    [][ ret'.op = "create_user_profile" /\ ret'.value =>
            /\ \A i, j \in DOMAIN profiles' :
                   profiles'[i].user_id = profiles'[j].user_id => i = j
            /\ Len(profiles') = IF OwnProfile = 0 THEN Len(profiles) + 1
                                ELSE Len(profiles)
            /\ OwnProfile' # 0 ]_vars

\* both users have a profile and the second call of one of them has
\* changed a field of that user's row
C22_Witness ==
    /\ ret.op = "create_user_profile"
    /\ Len(profiles) = 2
    /\ current_user_id = 1
    /\ profiles[1].phone_number = "555"
    /\ profiles[1].address = "Elm St"

\* C28: a create_user_profile call that passes only a phone number, on a
\* user who has a profile, leaves address, occupation, annual_income,
\* financial_goal and risk_tolerance of that profile as they were.
C28_PhoneOnlyKeepsOtherFields ==
    [][ /\ ret'.op = "create_user_profile"
        /\ ret'.value
        /\ ret'.given = PhoneOnly
        /\ OwnProfile # 0
        => LET old == profiles[OwnProfile]
               new == profiles'[OwnProfile]
           IN  /\ new.phone_number = "777"
               /\ new.address = old.address
               /\ new.occupation = old.occupation
               /\ new.annual_income = old.annual_income
               /\ new.financial_goal = old.financial_goal
               /\ new.risk_tolerance = old.risk_tolerance ]_vars

\* C23: the savings_goals table holds at most one goal per user and
\* name, so the goal update_savings_goal addresses by name is the only
\* one of that name.
C23_OneGoalPerUserAndName ==
    \A i, j \in DOMAIN goals :
        goals[i].user_id = goals[j].user_id /\ goals[i].name = goals[j].name
            => i = j

\* C27: a goal whose is_achieved flag is true keeps it true in every
\* later state, whatever is contributed afterwards.
C27_AchievedStaysAchieved ==
    [][ \A i \in DOMAIN goals :
            goals[i].is_achieved => goals'[i].is_achieved ]_vars

\* a contribution has taken an achieved goal back below its target, and
\* the goal is still achieved
C27_Witness ==
    /\ ret.op = "update_savings_goal"
    /\ ret.value
    /\ ret.added < 0
    /\ \E i \in DOMAIN goals :
           /\ goals[i].is_achieved
           /\ goals[i].target_amount > 0
           /\ goals[i].current_amount < goals[i].target_amount

\* report['category_expenses'][category], 0 when the category is not a
\* key of the mapping or the report is the empty mapping
ExpensesIn(report, category) ==
    IF DOMAIN report = {} THEN 0
    ELSE LET d == report.category_expenses
             at == {k \in DOMAIN d : d[k][1] = category}
         IN  IF at = {} THEN 0 ELSE d[CHOOSE k \in at : TRUE][2]

\* C26: every row view_budgets returns for a month has as its spent value
\* what generate_report returns for that user and month under
\* category_expenses for the row's category, 0 when the category is not
\* there or the report is empty.
C26_SpentAgreesWithReport ==
    ret.op = "view_budgets" =>
        \A k \in DOMAIN ret.value :
            ret.value[k].spent =
                ExpensesIn(generate_report_result(ret.value[k].month),
                           ret.value[k].category)

\* a budget row with spending on it, in a store that also holds a
\* transaction of the other user
C26_Witness ==
    /\ ret.op = "view_budgets"
    /\ \E k \in DOMAIN ret.value : ret.value[k].spent > 0
    /\ \E i \in DOMAIN transactions :
           transactions[i].user_id # current_user_id

\* C25: no method changes the amount, category, type, date, owner or
\* tags of a transaction that is stored, or removes it: every stored
\* transaction is there after the step, at its id, as it was.
C25_TransactionsImmutable ==
    [][ \A id \in DOMAIN transactions :
            /\ id \in DOMAIN transactions'
            /\ transactions'[id] = transactions[id]
            /\ tag_names_of(id)' = tag_names_of(id) ]_vars

\* a second tagged transaction has been stored behind a first one
C25_Witness ==
    /\ ret.op = "add_transaction_with_tags"
    /\ ret.value
    /\ Len(transactions) = 2
    /\ tag_names_of(1) = {"food"}
    /\ tag_names_of(2) = {"food"}

UserScopedOps ==
    {"add_transaction", "add_transaction_with_tags", "view_transactions",
     "add_budget", "view_budgets", "add_savings_goal", "update_savings_goal",
     "view_savings_goals", "generate_report", "create_user_profile",
     "view_user_profile"}

\* False for the methods that return a bool; the empty list and the empty
\* mapping are both <<>>
FailureValue(op) == IF op \in WriteOps THEN FALSE ELSE <<>>

\* C30: a user-scoped method called while nobody is logged in returns its
\* failure value, opens no store scope and leaves every table as it was.
C30_NotLoggedInFailsWithoutScope ==
    [][ current_user_id = 0 /\ ret'.op \in UserScopedOps =>
            /\ ret'.value = FailureValue(ret'.op)
            /\ session' = <<>>
            /\ Tables' = Tables ]_vars

\* generate_report on a store that holds transactions, called on an
\* instance nobody is logged in on
C30_Witness ==
    /\ current_user_id = 0
    /\ ret.op = "generate_report"
    /\ ret.value = <<>>
    /\ session = <<>>
    /\ transactions # <<>>

\* the rows of a table that the logged-in user owns
Own(table) == QueryAll(table, LAMBDA r : r.user_id = current_user_id)

\* every row of another user is in new where it was in old and as it was,
\* and no row of another user has been added
OthersKept(old, new) ==
    /\ \A i \in DOMAIN old :
           old[i].user_id # current_user_id =>
               i \in DOMAIN new /\ new[i] = old[i]
    /\ \A i \in DOMAIN new \ DOMAIN old : new[i].user_id = current_user_id

\* what each view returns when asked of the user's own rows alone
OwnBudgetRows(month) ==
    LET bs == QueryAll(Own(budgets), LAMBDA b : b.month = month)
    IN  [k \in DOMAIN bs |-> budget_row(bs[k], Own(transactions))]

OwnReport(month_arg) ==
    LET month == IF month_arg = NoDate THEN NowMonth ELSE month_arg
        txs == QueryAll(Own(transactions),
                        LAMBDA t : Like(t.transaction_date, month))
    IN  IF txs = <<>> THEN EmptyMapping ELSE report_data(month, txs)

OwnGoals == [k \in DOMAIN Own(goals) |-> goal_to_dict(Own(goals)[k])]

\* C29: add_transaction, add_budget, add_savings_goal, update_savings_goal
\* and create_user_profile of the logged-in user leave every row of
\* another user as it was and add none for another user; view_budgets,
\* view_savings_goals and generate_report return what they return on the
\* user's own rows alone, and view_transactions returns own transactions
\* only, as many as the user has up to the limit.
C29_UsersIsolated ==
    [][ /\ ret'.op \in {"add_transaction", "add_budget", "add_savings_goal",
                         "update_savings_goal", "create_user_profile"} =>
               /\ OthersKept(transactions, transactions')
               /\ OthersKept(budgets, budgets')
               /\ OthersKept(goals, goals')
               /\ OthersKept(profiles, profiles')
        /\ ret'.op = "view_budgets" =>
               \E month \in Months : ret'.value = OwnBudgetRows(month)
        /\ ret'.op = "view_savings_goals" => ret'.value = OwnGoals
        /\ ret'.op = "generate_report" =>
               ret'.value = OwnReport(ret'.asked)
        /\ ret'.op = "view_transactions" =>
               /\ \A k \in DOMAIN ret'.value :
                      /\ ret'.value[k].user_id = current_user_id
                      /\ ret'.value[k] = transaction_to_dict(ret'.value[k].id)
               /\ \A k, l \in DOMAIN ret'.value :
                      ret'.value[k].id = ret'.value[l].id => k = l
               /\ Len(ret'.value) =
                      IF Len(Own(transactions)) < ret'.limit
                      THEN Len(Own(transactions)) ELSE ret'.limit ]_vars

\* Ann has contributed to her goal Vacation, created behind Bob's goal of
\* that name: hers holds the amount, his is as it was
C29_Witness ==
    /\ ret.op = "update_savings_goal"
    /\ ret.value
    /\ Len(goals) = 2
    /\ goals[1].user_id = 2 /\ goals[1].name = "Vacation"
    /\ goals[1].current_amount = 0
    /\ goals[2].user_id = 1 /\ goals[2].name = "Vacation"
    /\ goals[2].current_amount = 5

\* C24: no transaction, budget, goal or profile refers to a user that
\* is not stored, and no association row refers to a transaction or a tag
\* that is not stored.  Before the first deletion every row refers to
\* rows that exist, so this speaks of the states after one.
C24_NothingRefersToDeletedRows ==
    /\ \A i \in DOMAIN transactions :
           transactions[i].user_id \in DOMAIN users
    /\ \A i \in DOMAIN budgets : budgets[i].user_id \in DOMAIN users
    /\ \A i \in DOMAIN goals : goals[i].user_id \in DOMAIN users
    /\ \A i \in DOMAIN profiles : profiles[i].user_id \in DOMAIN users
    /\ \A r \in DOMAIN transaction_tags :
           /\ transaction_tags[r][1] \in DOMAIN transactions
           /\ transaction_tags[r][2] \in DOMAIN tags

====
